---- MODULE Spec2Model ----
(***************************************************************************)
(* The startup sequence of the release-service manager process             *)
(* (main.go, func main): topology selection, manager construction,         *)
(* environment defaults, controller / webhook / probe registration and the *)
(* blocking run loop.  Every call main makes to a collaborator is one      *)
(* step; the collaborator's outcome (success or error) is an input of the  *)
(* step.                                                                   *)
(***************************************************************************)
EXTENDS Integers, Sequences, FiniteSets, TLC

VARIABLES
    pc,            \* the statement of main() that runs next
    flags,         \* the parsed command line (main.go:60-76)
    discovery,     \* what API discovery on the base cluster yields
    apiExports,    \* the APIExport resources of the base cluster
    env,           \* the process environment
    envAtStart,    \* the environment the process was started with
    options,       \* ctrl.Options (main.go:84-92)
    cfg,           \* cfg of main.go:95
    lookupErr,     \* err of main.go:95
    mgr,           \* the manager and what has been registered with it
    stages,        \* the sequencer stages entered so far, in order
    log,           \* setupLog entries written so far
    exitCode,      \* the process exit status, NoExitCode while running
    ctxCancelled,  \* ctx of main.go:80 has been cancelled by a signal
    locatorCalls   \* number of calls of GetRestConfigForApiExport

vars == <<pc, flags, discovery, apiExports, env, envAtStart, options, cfg, lookupErr, mgr,
          stages, log, exitCode, ctxCancelled, locatorCalls>>

----------------------------------------------------------------------------
(* Bounds of the model *)

\* number of distinct APIExport names the cluster and the flag range over
NumExports == 2

----------------------------------------------------------------------------
(* Values *)

NoError == "<nil>"
NoExitCode == 0 - 1

ExportName(i) == "export-" \o ToString(i)
ExportNames == {ExportName(i) : i \in 1..NumExports}
ExportURL(i) == "https://vw.example/ws" \o ToString(i)

\* An APIExport is missing, exists without a virtual-workspace URL, or
\* advertises a URL.
Missing == [exists |-> FALSE, url |-> ""]
NoURL == [exists |-> TRUE, url |-> ""]
ExportStates(i) == {Missing, NoURL, [exists |-> TRUE, url |-> ExportURL(i)]}

\* *rest.Config values: nil, or a config with a host and credentials
NilConfig == [isNil |-> TRUE, host |-> "", creds |-> ""]
RestConfig == [isNil |-> FALSE, host |-> "https://base.example", creds |-> "base"]

\* an environment variable is unset, or set to a string (possibly empty)
Unset == [set |-> FALSE, val |-> ""]
SetTo(v) == [set |-> TRUE, val |-> v]

PVCKey == "DEFAULT_RELEASE_PVC"
WorkspaceKey == "DEFAULT_RELEASE_WORKSPACE_NAME"
WebhooksKey == "ENABLE_WEBHOOKS"
EnvKeys == {PVCKey, WorkspaceKey, WebhooksKey}

PVCFallback == "release-pvc"
WorkspaceFallback == "release-workspace"

\* the environments the operator may start the process with
InitialValues(k) ==
    IF k = PVCKey THEN {Unset, SetTo(""), SetTo("custom-pvc")}
    ELSE IF k = WorkspaceKey THEN {Unset, SetTo(""), SetTo("custom-workspace")}
    ELSE {Unset, SetTo("false"), SetTo("true"), SetTo("FALSE")}

\* the command lines of the model: the flag defaults of main.go:67-69, and
\* one with every address and the leader-election flag given
FlagValues ==
    {[metricsAddr |-> ":8080", probeAddr |-> ":8081", enableLeaderElection |-> FALSE],
     [metricsAddr |-> ":9090", probeAddr |-> ":9091", enableLeaderElection |-> TRUE]}

WebhookPort == 9443
\* exit status of a Go process that dies of a runtime panic
PanicExitCode == 2
LeaderElectionID == "f3d4c01a.redhat.com"

NoManager ==
    [path |-> "none", config |-> NilConfig, options |-> [none |-> TRUE],
     controllers |-> FALSE, webhooks |-> <<>>, probes |-> <<>>,
     started |-> FALSE]

----------------------------------------------------------------------------
(* Pure parts of main *)

\* os.Getenv: the value, "" when the variable is unset
Getenv(e, k) == IF e[k].set THEN e[k].val ELSE ""

\* os.Setenv
Setenv(e, k, v) == [e EXCEPT ![k] = SetTo(v)]

\* a defaulting block that appends the fallback instead of guarding on ""
ApplyDefaultAppending(e, k, v) == Setenv(e, k, Getenv(e, k) \o v)

\* a defaulting block that sets the fallback without looking at the value
ApplyDefaultOverriding(e, k, v) == Setenv(e, k, v)

\* a defaulting block that looks only at whether the variable is set
ApplyDefaultOnlyIfUnset(e, k, v) == IF ~e[k].set THEN Setenv(e, k, v) ELSE e

\* main.go:118-119 and 127-128: set the fallback when Getenv yields ""
ApplyDefault(e, k, v) == IF Getenv(e, k) = "" THEN Setenv(e, k, v) ELSE e

\* a switch that is on only for the literal "true"
WebhooksEnabledOnlyIfTrue(e) == Getenv(e, WebhooksKey) = "true"

\* main.go:141
WebhooksEnabled(e) == Getenv(e, WebhooksKey) # "false"

\* main.go:84-92
Options(f, restCfg) ==
    [Scheme |-> "scheme",
     MetricsBindAddress |-> f.metricsAddr,
     Port |-> WebhookPort,
     HealthProbeBindAddress |-> f.probeAddr,
     LeaderElection |-> f.enableLeaderElection,
     LeaderElectionID |-> LeaderElectionID,
     LeaderElectionConfig |-> restCfg]

\* the webhooks main registers, in the order of main.go:144-157
MainWebhooks == <<"release", "releaseplanadmission", "releaseplan">>

\* the webhooks package's list (EnabledWebhooks)
EnabledWebhooks == <<"author", "release", "releaseplan", "releaseplanadmission">>

----------------------------------------------------------------------------
(* The kcp helpers main calls *)

\* kcpUtils.IsKcpApiGroupPresent: a discovery error counts as absent
IsKcpApiGroupPresent(d) == d = "present"

\* kcpUtils.GetRestConfigForApiExport: the (cfg, err) pairs it may return.
\* On success cfg is a copy of the base config whose host is the export's
\* advertised URL.  On an error the returned cfg is nil or a config that is
\* not usable; which of the two is not fixed by the contract.
LookupError(exports, name, netOk) ==
    IF name = "" THEN "empty APIExport name"
    ELSE IF ~netOk THEN "error getting APIExport"
    ELSE IF name \notin DOMAIN exports \/ ~exports[name].exists
         THEN "APIExport not found"
    ELSE IF exports[name].url = "" THEN "APIExport has no virtual workspace URL"
    ELSE NoError

GetRestConfigForApiExport(exports, restCfg, name, netOk) ==
    LET e == LookupError(exports, name, netOk) IN
    IF e = NoError
    THEN {[cfg |-> [restCfg EXCEPT !.host = exports[name].url], err |-> NoError]}
    ELSE {[cfg |-> NilConfig, err |-> e],
          [cfg |-> [restCfg EXCEPT !.host = ""], err |-> e]}

----------------------------------------------------------------------------
(* Logging and exit *)

LogError(e, msg) == Append(log, [level |-> "error", err |-> e, msg |-> msg])
LogInfo(msg) == Append(log, [level |-> "info", err |-> NoError, msg |-> msg])

\* setupLog.Error(err, msg); os.Exit(1)
Fatal(e, msg) ==
    /\ log' = LogError(e, msg)
    /\ exitCode' = 1
    /\ pc' = "Exit"

Enter(stage) == stages' = Append(stages, stage)

----------------------------------------------------------------------------
(* Initial state: the process has been started, nothing has run yet *)

Init ==
    /\ pc = "ParseConfig"
    /\ flags \in {[apiExportName |-> n,
                   metricsAddr |-> b.metricsAddr,
                   probeAddr |-> b.probeAddr,
                   enableLeaderElection |-> b.enableLeaderElection] :
                     n \in {""} \cup ExportNames, b \in FlagValues}
    /\ discovery \in {"present", "absent", "error"}
    /\ apiExports \in {f \in [ExportNames -> {Missing, NoURL} \cup
                                  {[exists |-> TRUE, url |-> ExportURL(i)] : i \in 1..NumExports}] :
                          \A i \in 1..NumExports : f[ExportName(i)] \in ExportStates(i)}
    /\ env \in {e \in [EnvKeys -> UNION {InitialValues(k) : k \in EnvKeys}] :
                   \A k \in EnvKeys : e[k] \in InitialValues(k)}
    /\ envAtStart = env
    /\ options = [none |-> TRUE]
    /\ cfg = NilConfig
    /\ lookupErr = NoError
    /\ mgr = NoManager
    /\ stages = <<>>
    /\ log = <<>>
    /\ exitCode = NoExitCode
    /\ ctxCancelled = FALSE
    /\ locatorCalls = 0

----------------------------------------------------------------------------
(* The steps of main *)

\* the manager of ctrl.NewManager / kcp.NewClusterAwareManager, nothing registered
NewManagerValue(path, c, o) ==
    [NoManager EXCEPT !.path = path, !.config = c, !.options = o]

\* a branch on the discovery result with the condition negated
BranchOnNegatedPresence(present) ==
    IF present THEN "NewManager" ELSE "GetRestConfigForApiExport"

\* main.go:93 and 108: which branch runs for the discovery result
BranchOnPresence(present) ==
    IF present THEN "GetRestConfigForApiExport" ELSE "NewManager"

\* a cluster-aware construction that is handed the base config
WorkspaceManagerConfigFromBase(c, restCfg) == restCfg

\* main.go:103: the connection config handed to kcp.NewClusterAwareManager
WorkspaceManagerConfig(c, restCfg) == c

\* a leader-election config taken from the virtual workspace
WorkspaceLeaderElectionConfigFromCfg(c, restCfg) == c

\* main.go:102: options.LeaderElectionConfig in the virtual-workspace branch
WorkspaceLeaderElectionConfig(c, restCfg) == restCfg

\* a virtual-workspace branch that also turns leader election off
WorkspaceOptionsWithoutLeaderElection(o, c, restCfg) ==
    [o EXCEPT !.LeaderElectionConfig = WorkspaceLeaderElectionConfig(c, restCfg),
              !.LeaderElection = FALSE]

\* main.go:102: the only option the virtual-workspace branch assigns
WorkspaceOptions(o, c, restCfg) ==
    [o EXCEPT !.LeaderElectionConfig = WorkspaceLeaderElectionConfig(c, restCfg)]

\* main.go:60-92: flags, logger, signal handler, base config, options
ParseConfig ==
    /\ pc = "ParseConfig"
    /\ Enter("ParseConfig")
    /\ options' = Options(flags, RestConfig)
    /\ pc' = "IsKcpApiGroupPresent"
    /\ UNCHANGED <<flags, discovery, apiExports, env, envAtStart, cfg,
                   lookupErr, mgr, log, exitCode, ctxCancelled, locatorCalls>>

\* main.go:93-94 and 108-109: the branch on IsKcpApiGroupPresent
ResolveTopology ==
    /\ pc = "IsKcpApiGroupPresent"
    /\ Enter("ResolveTopology")
    /\ pc' = BranchOnPresence(IsKcpApiGroupPresent(discovery))
    /\ log' = IF pc' = "GetRestConfigForApiExport"
              THEN LogInfo("Looking up virtual workspace URL")
              ELSE LogInfo("The apis.kcp.dev group is not present - creating standard manager")
    /\ UNCHANGED <<flags, discovery, apiExports, env, envAtStart, options, cfg,
                   lookupErr, mgr, exitCode, ctxCancelled, locatorCalls>>

\* main.go:95-98: the lookup; its error is logged and main goes on
LookupWorkspace ==
    /\ pc = "GetRestConfigForApiExport"
    /\ \E netOk \in BOOLEAN :
         \E r \in GetRestConfigForApiExport(apiExports, RestConfig,
                                            flags.apiExportName, netOk) :
            /\ cfg' = r.cfg
            /\ lookupErr' = r.err
            /\ log' = IF r.err # NoError
                      THEN LogError(r.err, "error looking up virtual workspace URL")
                      ELSE log
    /\ locatorCalls' = locatorCalls + 1
    /\ pc' = "UseWorkspaceURL"
    /\ UNCHANGED <<flags, discovery, apiExports, env, envAtStart, options, mgr,
                   stages, exitCode, ctxCancelled>>

\* main.go:100: cfg.Host is read; reading it through a nil cfg panics
UseWorkspaceURL ==
    /\ pc = "UseWorkspaceURL"
    /\ IF cfg.isNil
       THEN /\ pc' = "Exit"
            /\ exitCode' = PanicExitCode
            /\ log' = log
       ELSE /\ pc' = "NewClusterAwareManager"
            /\ exitCode' = exitCode
            /\ log' = LogInfo("Using virtual workspace URL " \o cfg.host)
    /\ UNCHANGED <<flags, discovery, apiExports, env, envAtStart, options, cfg,
                   lookupErr, mgr, stages, ctxCancelled, locatorCalls>>

\* main.go:102-107
NewClusterAwareManager ==
    /\ pc = "NewClusterAwareManager"
    /\ Enter("BuildManager")
    /\ options' = WorkspaceOptions(options, cfg, RestConfig)
    /\ \E ok \in BOOLEAN :
         IF ok
         THEN /\ mgr' = NewManagerValue("clusterAware",
                            WorkspaceManagerConfig(cfg, RestConfig), options')
              /\ pc' = "DefaultPVC"
              /\ UNCHANGED <<log, exitCode>>
         ELSE /\ Fatal("manager construction failed", "unable to start cluster aware manager")
              /\ mgr' = mgr
    /\ UNCHANGED <<flags, discovery, apiExports, env, envAtStart, cfg,
                   lookupErr, ctxCancelled, locatorCalls>>

\* main.go:110-114
NewManager ==
    /\ pc = "NewManager"
    /\ Enter("BuildManager")
    /\ \E ok \in BOOLEAN :
         IF ok
         THEN /\ mgr' = NewManagerValue("standard", RestConfig, options)
              /\ pc' = "DefaultPVC"
              /\ UNCHANGED <<log, exitCode>>
         ELSE /\ Fatal("manager construction failed", "unable to start manager")
              /\ mgr' = mgr
    /\ UNCHANGED <<flags, discovery, apiExports, env, envAtStart, options, cfg,
                   lookupErr, ctxCancelled, locatorCalls>>

\* main.go:118-124 and 127-133: one defaulting block; os.Setenv may fail
DefaultBlock(k, v, next) ==
    \E setenvOk \in BOOLEAN :
       IF Getenv(env, k) = "" /\ ~setenvOk
       THEN /\ Fatal("setenv failed", "unable to setup " \o k \o " environment variable")
            /\ env' = env
       ELSE /\ env' = ApplyDefault(env, k, v)
            /\ pc' = next
            /\ UNCHANGED <<log, exitCode>>

\* main.go:117-124
ApplyDefaultPVC ==
    /\ pc = "DefaultPVC"
    /\ Enter("ApplyDefaults")
    /\ DefaultBlock(PVCKey, PVCFallback, "DefaultWorkspace")
    /\ UNCHANGED <<flags, discovery, apiExports, envAtStart, options, cfg,
                   lookupErr, mgr, ctxCancelled, locatorCalls>>

\* main.go:126-133
ApplyDefaultWorkspace ==
    /\ pc = "DefaultWorkspace"
    /\ DefaultBlock(WorkspaceKey, WorkspaceFallback, "SetupControllers")
    /\ UNCHANGED <<flags, discovery, apiExports, envAtStart, options, cfg,
                   lookupErr, mgr, stages, ctxCancelled, locatorCalls>>

\* main.go:135-139
SetupControllers ==
    /\ pc = "SetupControllers"
    /\ Enter("RegisterControllers")
    /\ \E ok \in BOOLEAN :
         IF ok
         THEN /\ mgr' = [mgr EXCEPT !.controllers = TRUE]
              /\ pc' = "CheckWebhooks"
              /\ UNCHANGED <<log, exitCode>>
         ELSE /\ Fatal("controller setup failed", "unable to setup controllers")
              /\ mgr' = mgr
    /\ UNCHANGED <<flags, discovery, apiExports, env, envAtStart, options, cfg,
                   lookupErr, ctxCancelled, locatorCalls>>

\* main.go:141-142: the ENABLE_WEBHOOKS switch
CheckWebhooks ==
    /\ pc = "CheckWebhooks"
    /\ IF WebhooksEnabled(env)
       THEN /\ Enter("RegisterWebhooks")
            /\ log' = LogInfo("setting up webhooks")
            /\ pc' = "SetupWebhook"
       ELSE /\ pc' = "AddHealthzCheck"
            /\ UNCHANGED <<stages, log>>
    /\ UNCHANGED <<flags, discovery, apiExports, env, envAtStart, options, cfg,
                   lookupErr, mgr, exitCode, ctxCancelled, locatorCalls>>

\* a webhook registration whose error is logged without leaving main
SetupWebhookWithoutExit ==
    /\ pc = "SetupWebhook"
    /\ LET i == Len(mgr.webhooks) + 1 IN
       \E ok \in BOOLEAN :
         IF ok
         THEN /\ mgr' = [mgr EXCEPT !.webhooks = Append(@, MainWebhooks[i])]
              /\ pc' = IF i = Len(MainWebhooks) THEN "AddHealthzCheck" ELSE "SetupWebhook"
              /\ log' = log
         ELSE /\ log' = LogError("webhook setup failed",
                                 "unable to create webhook " \o MainWebhooks[i])
              /\ mgr' = mgr
              /\ pc' = "AddHealthzCheck"
    /\ UNCHANGED <<flags, discovery, apiExports, env, envAtStart, options, cfg,
                   lookupErr, stages, exitCode, ctxCancelled, locatorCalls>>

\* main.go:144-157: the next SetupWebhookWithManager call
SetupWebhook ==
    /\ pc = "SetupWebhook"
    /\ LET i == Len(mgr.webhooks) + 1 IN
       \E ok \in BOOLEAN :
         IF ok
         THEN /\ mgr' = [mgr EXCEPT !.webhooks = Append(@, MainWebhooks[i])]
              /\ pc' = IF i = Len(MainWebhooks) THEN "AddHealthzCheck" ELSE "SetupWebhook"
              /\ UNCHANGED <<log, exitCode>>
         ELSE /\ Fatal("webhook setup failed", "unable to create webhook " \o MainWebhooks[i])
              /\ mgr' = mgr
    /\ UNCHANGED <<flags, discovery, apiExports, env, envAtStart, options, cfg,
                   lookupErr, stages, ctxCancelled, locatorCalls>>

\* main.go:162-165
AddHealthzCheck ==
    /\ pc = "AddHealthzCheck"
    /\ Enter("RegisterProbes")
    /\ \E ok \in BOOLEAN :
         IF ok
         THEN /\ mgr' = [mgr EXCEPT !.probes = Append(@, "healthz")]
              /\ pc' = "AddReadyzCheck"
              /\ UNCHANGED <<log, exitCode>>
         ELSE /\ Fatal("healthz failed", "unable to set up health check")
              /\ mgr' = mgr
    /\ UNCHANGED <<flags, discovery, apiExports, env, envAtStart, options, cfg,
                   lookupErr, ctxCancelled, locatorCalls>>

\* a readyz registration whose error is logged without leaving main
AddReadyzCheckWithoutExit ==
    /\ pc = "AddReadyzCheck"
    /\ \E ok \in BOOLEAN :
         IF ok
         THEN /\ mgr' = [mgr EXCEPT !.probes = Append(@, "readyz")]
              /\ log' = log
         ELSE /\ log' = LogError("readyz failed", "unable to set up ready check")
              /\ mgr' = mgr
    /\ pc' = "Start"
    /\ UNCHANGED <<flags, discovery, apiExports, env, envAtStart, options, cfg,
                   lookupErr, stages, exitCode, ctxCancelled, locatorCalls>>

\* main.go:166-169
AddReadyzCheck ==
    /\ pc = "AddReadyzCheck"
    /\ \E ok \in BOOLEAN :
         IF ok
         THEN /\ mgr' = [mgr EXCEPT !.probes = Append(@, "readyz")]
              /\ pc' = "Start"
              /\ UNCHANGED <<log, exitCode>>
         ELSE /\ Fatal("readyz failed", "unable to set up ready check")
              /\ mgr' = mgr
    /\ UNCHANGED <<flags, discovery, apiExports, env, envAtStart, options, cfg,
                   lookupErr, stages, ctxCancelled, locatorCalls>>

\* main.go:171-172: mgr.Start(ctx) is called and blocks
StartManager ==
    /\ pc = "Start"
    /\ Enter("Run")
    /\ log' = LogInfo("starting manager")
    /\ mgr' = [mgr EXCEPT !.started = TRUE]
    /\ pc' = "Running"
    /\ UNCHANGED <<flags, discovery, apiExports, env, envAtStart, options, cfg,
                   lookupErr, exitCode, ctxCancelled, locatorCalls>>

\* a run loop started with a context that no signal cancels
ManagerStopsOnBackgroundContext ==
    /\ pc = "Running"
    /\ FALSE
    /\ UNCHANGED vars

\* main.go:172 and 176: mgr.Start(ctx) returns nil once ctx is cancelled
\* and main returns (exit status 0)
ManagerStops ==
    /\ pc = "Running"
    /\ ctxCancelled
    /\ exitCode' = 0
    /\ pc' = "Exit"
    /\ UNCHANGED <<flags, discovery, apiExports, env, envAtStart, options, cfg,
                   lookupErr, mgr, stages, log, ctxCancelled, locatorCalls>>

\* main.go:172-175: mgr.Start(ctx) returns an error
ManagerFails ==
    /\ pc = "Running"
    /\ Fatal("manager run loop failed", "problem running manager")
    /\ UNCHANGED <<flags, discovery, apiExports, env, envAtStart, options, cfg,
                   lookupErr, mgr, stages, ctxCancelled, locatorCalls>>

\* main.go:172-176: mgr.Start returns
ManagerReturns == ManagerStops \/ ManagerFails

\* a signal that ends the process instead of cancelling ctx
SignalExits ==
    /\ pc \notin {"ParseConfig", "Exit"}
    /\ ~ctxCancelled
    /\ ctxCancelled' = TRUE
    /\ pc' = "Exit"
    /\ exitCode' = 1
    /\ UNCHANGED <<flags, discovery, apiExports, env, envAtStart, options,
                   cfg, lookupErr, mgr, stages, log, locatorCalls>>

\* main.go:80: a termination signal, once the handler is installed,
\* cancels ctx
Signal ==
    /\ pc \notin {"ParseConfig", "Exit"}
    /\ ~ctxCancelled
    /\ ctxCancelled' = TRUE
    /\ UNCHANGED <<pc, flags, discovery, apiExports, env, envAtStart, options,
                   cfg, lookupErr, mgr, stages, log, exitCode, locatorCalls>>

Next ==
    \/ ParseConfig
    \/ ResolveTopology
    \/ LookupWorkspace
    \/ UseWorkspaceURL
    \/ NewClusterAwareManager
    \/ NewManager
    \/ ApplyDefaultPVC
    \/ ApplyDefaultWorkspace
    \/ SetupControllers
    \/ CheckWebhooks
    \/ SetupWebhook
    \/ AddHealthzCheck
    \/ AddReadyzCheck
    \/ StartManager
    \/ ManagerReturns
    \/ Signal

Spec == Init /\ [][Next]_vars

\* the steps main takes by itself, from its first statement to mgr.Start
StartupStep ==
    \/ ParseConfig
    \/ ResolveTopology
    \/ LookupWorkspace
    \/ UseWorkspaceURL
    \/ NewClusterAwareManager
    \/ NewManager
    \/ ApplyDefaultPVC
    \/ ApplyDefaultWorkspace
    \/ SetupControllers
    \/ CheckWebhooks
    \/ SetupWebhook
    \/ AddHealthzCheck
    \/ AddReadyzCheck
    \/ StartManager

\* main runs on: every call it makes returns, and a run loop whose context
\* is cancelled returns.  A signal or a run-loop error need never happen.
FairSpec == Spec /\ WF_vars(StartupStep) /\ WF_vars(ManagerStops)

----------------------------------------------------------------------------
(* Vocabulary of the properties *)

Reached(stage) == \E i \in 1..Len(stages) : stages[i] = stage

ErrorLogged == \E i \in 1..Len(log) : log[i].level = "error"

ResolutionFailed == locatorCalls > 0 /\ lookupErr # NoError

DefaultKeys == {PVCKey, WorkspaceKey}
FallbackOf(k) == IF k = PVCKey THEN PVCFallback ELSE WorkspaceFallback

StageOrder ==
    <<"ParseConfig", "ResolveTopology", "BuildManager", "ApplyDefaults",
      "RegisterControllers", "RegisterWebhooks", "RegisterProbes", "Run">>
StageRank(stage) == CHOOSE i \in 1..Len(StageOrder) : StageOrder[i] = stage

\* the switch of main.go:141 has been passed
PastWebhookSwitch == mgr.controllers /\ pc # "CheckWebhooks"

----------------------------------------------------------------------------
(* Properties *)

\* C1: when the multi-tenant API group is detected and the workspace lookup
\* returns an error, the run ends Fatal (exit status 1) and the BuildManager
\* stage is never entered.
C1_ResolutionFailureIsFatal ==
    (IsKcpApiGroupPresent(discovery) /\ ResolutionFailed) =>
        /\ ~Reached("BuildManager")
        /\ pc = "Exit" => (exitCode = 1 /\ ErrorLogged)

\* C2: when the multi-tenant API group is absent, for any --api-export-name,
\* the workspace lookup is never invoked, the manager is built by the
\* standard path against the base cluster config, and no run ends before
\* the BuildManager stage.
C2_AbsentGroupIsStandalone ==
    discovery = "absent" =>
        /\ locatorCalls = 0
        /\ pc \notin {"GetRestConfigForApiExport", "UseWorkspaceURL",
                      "NewClusterAwareManager"}
        /\ mgr.path \in {"none", "standard"}
        /\ mgr.path = "standard" => mgr.config = RestConfig
        /\ pc = "Exit" => Reached("BuildManager")

C2_Witness ==
    /\ discovery = "absent"
    /\ flags.apiExportName = ""
    /\ mgr.path = "standard"
    /\ mgr.config = RestConfig
    /\ pc = "Running"

\* C3: when the group is present and the named export resolves, the manager
\* is built by the cluster-aware path with the config the lookup returned,
\* whose host is the export's advertised URL and not the base cluster's.
C3_ResolvedWorkspaceIsUsed ==
    (/\ IsKcpApiGroupPresent(discovery)
     /\ flags.apiExportName # ""
     /\ locatorCalls > 0
     /\ lookupErr = NoError) =>
        /\ cfg.host = apiExports[flags.apiExportName].url
        /\ cfg.host # ""
        /\ mgr.path \in {"none", "clusterAware"}
        /\ mgr.path = "clusterAware" =>
              /\ mgr.config = cfg
              /\ mgr.config.host = apiExports[flags.apiExportName].url
              /\ mgr.config # RestConfig

C3_Witness ==
    /\ discovery = "present"
    /\ flags.apiExportName = ExportName(1)
    /\ lookupErr = NoError
    /\ mgr.path = "clusterAware"
    /\ mgr.config.host = ExportURL(1)
    /\ pc = "Running"

\* C4: the leader-election config in the options, and in the options the
\* manager was built with, is the base cluster config in both topologies;
\* with a virtual workspace it is not the workspace's config.
C4_LeaderElectionOnBaseCluster ==
    /\ pc # "ParseConfig" => options.LeaderElectionConfig = RestConfig
    /\ mgr.path # "none" =>
          /\ mgr.options.LeaderElectionConfig = RestConfig
          /\ mgr.path = "clusterAware" =>
                mgr.options.LeaderElectionConfig # mgr.config

C4_Witness ==
    /\ mgr.path = "clusterAware"
    /\ lookupErr = NoError
    /\ mgr.config.host = ExportURL(1)
    /\ mgr.options.LeaderElectionConfig = RestConfig
    /\ mgr.started

\* C5: the RegisterWebhooks stage is entered exactly when ENABLE_WEBHOOKS is
\* not the literal "false" (unset and any other value enable it); with
\* "false" no webhook is registered and RegisterProbes follows
\* RegisterControllers directly.
C5_WebhookSwitch ==
    /\ Reached("RegisterWebhooks") <=>
          (PastWebhookSwitch /\ env[WebhooksKey] # SetTo("false"))
    /\ env[WebhooksKey] = SetTo("false") =>
          /\ mgr.webhooks = <<>>
          /\ \A i \in 1..Len(stages) - 1 :
                stages[i] = "RegisterControllers" => stages[i + 1] = "RegisterProbes"

C5_Witness ==
    /\ env[WebhooksKey] = SetTo("false")
    /\ Reached("RegisterProbes")
    /\ ~Reached("RegisterWebhooks")
    /\ pc = "Running"

\* C6 as stated: after ApplyDefaults, a variable that was unset holds the
\* fallback and a variable that was set, to whatever value, is untouched.
C6_SetValueUntouched ==
    Reached("RegisterControllers") =>
        \A k \in DefaultKeys :
            IF envAtStart[k].set
            THEN env[k] = envAtStart[k]
            ELSE env[k] = SetTo(FallbackOf(k))

\* C6 amended: after ApplyDefaults, a variable that was unset or set to the
\* empty string holds the fallback, and a variable that was set to a
\* non-empty value is untouched.
C6_NonEmptyValueUntouched ==
    Reached("RegisterControllers") =>
        \A k \in DefaultKeys :
            IF envAtStart[k].set /\ envAtStart[k].val # ""
            THEN env[k] = envAtStart[k]
            ELSE env[k] = SetTo(FallbackOf(k))

C6_Witness ==
    /\ Reached("RegisterControllers")
    /\ envAtStart[PVCKey] = Unset
    /\ env[PVCKey] = SetTo("release-pvc")
    /\ envAtStart[WorkspaceKey] = SetTo("custom-workspace")
    /\ env[WorkspaceKey] = SetTo("custom-workspace")

\* C7: applying a default twice gives the environment that applying it once
\* gives, for every environment; once main has applied a default, applying
\* it again changes nothing.
C7_ApplyDefaultIdempotent ==
    /\ \A k \in DefaultKeys :
          LET once == ApplyDefault(env, k, FallbackOf(k))
          IN  ApplyDefault(once, k, FallbackOf(k)) = once
    /\ pc = "DefaultWorkspace" => ApplyDefault(env, PVCKey, PVCFallback) = env
    /\ Reached("RegisterControllers") =>
          \A k \in DefaultKeys : ApplyDefault(env, k, FallbackOf(k)) = env

C7_Witness ==
    /\ pc = "DefaultWorkspace"
    /\ envAtStart[PVCKey] = Unset
    /\ env[PVCKey] = SetTo(PVCFallback)
    /\ ApplyDefault(env, PVCKey, PVCFallback) = env

\* C8: a terminated run has exit status 0 exactly when the Run stage was
\* entered and the run loop returned without error, and exit status 1
\* whenever a stage failed, a failed topology resolution included.
C8_ExitStatus ==
    pc = "Exit" =>
        /\ exitCode = 0 <=> (Reached("Run") /\ ~ErrorLogged)
        /\ (ResolutionFailed \/ ErrorLogged) => exitCode = 1

\* C9: stages are entered in the fixed order, each at most once, only
\* RegisterWebhooks may be skipped, and Run is entered only after the
\* controllers, every webhook (when the stage was entered) and both probes
\* have been registered.
C9_StageOrder ==
    /\ \A i \in 1..Len(stages) : stages[i] \in {StageOrder[j] : j \in 1..Len(StageOrder)}
    /\ \A i \in 1..Len(stages) - 1 :
          \/ StageRank(stages[i + 1]) = StageRank(stages[i]) + 1
          \/ /\ stages[i] = "RegisterControllers"
             /\ stages[i + 1] = "RegisterProbes"
    /\ stages # <<>> => stages[1] = "ParseConfig"
    /\ (Reached("Run") \/ mgr.started) =>
          /\ Reached("Run") /\ mgr.started
          /\ mgr.controllers
          /\ Reached("RegisterWebhooks") <=> env[WebhooksKey] # SetTo("false")
          /\ mgr.webhooks = IF Reached("RegisterWebhooks") THEN MainWebhooks ELSE <<>>
          /\ mgr.probes = <<"healthz", "readyz">>

C9_Witness ==
    /\ pc = "Running"
    /\ stages = StageOrder
    /\ mgr.webhooks = MainWebhooks

\* C10: with webhooks enabled and no failed registration, every webhook of
\* EnabledWebhooks has been registered exactly once, in the list's order,
\* when RegisterProbes is entered.
C10_EnabledWebhooksRegistered ==
    (Reached("RegisterProbes") /\ env[WebhooksKey] # SetTo("false")) =>
        mgr.webhooks = EnabledWebhooks

\* a webhook registration has returned an error
WebhookFailed == \E i \in 1..Len(log) : log[i].err = "webhook setup failed"

\* C11: when a webhook registration returns an error the run is Fatal at
\* once: the webhooks registered are a proper prefix of the order, no probe
\* is registered, the RegisterProbes and Run stages are never entered and
\* the manager is never started.
C11_WebhookErrorIsFatal ==
    WebhookFailed =>
        /\ pc = "Exit"
        /\ exitCode = 1
        /\ log[Len(log)].err = "webhook setup failed"
        /\ Len(mgr.webhooks) < Len(MainWebhooks)
        /\ mgr.webhooks = SubSeq(MainWebhooks, 1, Len(mgr.webhooks))
        /\ log[Len(log)].msg =
              "unable to create webhook " \o MainWebhooks[Len(mgr.webhooks) + 1]
        /\ mgr.probes = <<>>
        /\ ~Reached("RegisterProbes")
        /\ ~Reached("Run")
        /\ ~mgr.started

C11_Witness ==
    /\ WebhookFailed
    /\ mgr.webhooks = <<"release">>
    /\ pc = "Exit"

\* C12: once the run loop has been started, a delivered signal leads to the
\* end of the process, a run-loop error ends it at once, and a process that
\* entered Run ends only by the run loop returning (nil after a signal,
\* exit status 0, or an error, logged, exit status 1).
C12_RunEndsAfterSignal ==
    /\ (pc = "Running" /\ ctxCancelled) ~> (pc = "Exit")
    /\ [](log # <<>> /\ log[Len(log)].msg = "problem running manager"
             => pc = "Exit" /\ exitCode = 1 /\ Reached("Run"))
    /\ []((pc = "Exit" /\ Reached("Run")) =>
             \/ exitCode = 0 /\ ctxCancelled
             \/ exitCode = 1 /\ log[Len(log)].msg = "problem running manager")

C12_Witness ==
    /\ pc = "Exit"
    /\ Reached("Run")
    /\ ctxCancelled
    /\ exitCode = 0

\* C13: whichever construction path built the manager, it was given the
\* scheme, the metrics and probe addresses and the leader-election flag of
\* the command line, webhook port 9443 and the leader-election identity
\* "f3d4c01a.redhat.com".
C13_OptionsIndependentOfTopology ==
    mgr.path \in {"standard", "clusterAware"} =>
        /\ mgr.options.Scheme = "scheme"
        /\ mgr.options.MetricsBindAddress = flags.metricsAddr
        /\ mgr.options.HealthProbeBindAddress = flags.probeAddr
        /\ mgr.options.Port = 9443
        /\ mgr.options.LeaderElection = flags.enableLeaderElection
        /\ mgr.options.LeaderElectionID = "f3d4c01a.redhat.com"
        /\ mgr.options = options

C13_Witness ==
    /\ mgr.path = "clusterAware"
    /\ lookupErr = NoError
    /\ flags.enableLeaderElection
    /\ mgr.options.LeaderElection
    /\ mgr.options.MetricsBindAddress = ":9090"
    /\ mgr.options.LeaderElectionID = "f3d4c01a.redhat.com"

\* the stage an error message of main names
StageOfMessage(msg) ==
    IF msg = "error looking up virtual workspace URL" THEN "ResolveTopology"
    ELSE IF msg \in {"unable to start cluster aware manager", "unable to start manager"}
         THEN "BuildManager"
    ELSE IF msg \in {"unable to setup " \o k \o " environment variable" : k \in DefaultKeys}
         THEN "ApplyDefaults"
    ELSE IF msg = "unable to setup controllers" THEN "RegisterControllers"
    ELSE IF msg \in {"unable to create webhook " \o MainWebhooks[i] :
                        i \in 1..Len(MainWebhooks)}
         THEN "RegisterWebhooks"
    ELSE IF msg \in {"unable to set up health check", "unable to set up ready check"}
         THEN "RegisterProbes"
    ELSE IF msg = "problem running manager" THEN "Run"
    ELSE "none"

\* C14: a run that ended Fatal has the error of its failing stage as its
\* last log entry, and once a stage's error is logged no later stage is
\* entered and the run ends with a non-zero status.
C14_LoggedErrorEndsRun ==
    /\ (pc = "Exit" /\ exitCode = 1) =>
          /\ log # <<>>
          /\ log[Len(log)].level = "error"
          /\ StageOfMessage(log[Len(log)].msg) = stages[Len(stages)]
    /\ \A i \in 1..Len(log) :
          log[i].level = "error" =>
             /\ stages[Len(stages)] = StageOfMessage(log[i].msg)
             /\ pc = "Exit" => exitCode # 0

\* C15: when discovery of the multi-tenant API group fails, the run goes on
\* as with the group absent: no workspace lookup, no exit and no error entry
\* before BuildManager, and the manager is built by the standard path
\* against the base cluster config.
C15_DiscoveryErrorDegrades ==
    discovery = "error" =>
        /\ locatorCalls = 0
        /\ lookupErr = NoError
        /\ ~Reached("BuildManager") => (pc # "Exit" /\ ~ErrorLogged)
        /\ Reached("ResolveTopology") =>
              (Reached("BuildManager") \/ pc = "NewManager")
        /\ mgr.path \in {"none", "standard"}
        /\ mgr.path = "standard" => mgr.config = RestConfig

C15_Witness ==
    /\ discovery = "error"
    /\ mgr.path = "standard"
    /\ mgr.config = RestConfig
    /\ mgr.started

\* C16: after the workspace lookup has returned an error, its cfg is not
\* used: cfg.Host is not read (no nil dereference, no "Using virtual
\* workspace URL" entry) and no manager is constructed from it.
C16_FailedLookupConfigUnused ==
    ResolutionFailed =>
        /\ exitCode # PanicExitCode
        /\ \A i \in 1..Len(log) :
              log[i].msg # "Using virtual workspace URL " \o cfg.host
        /\ ~Reached("BuildManager")
        /\ mgr.path = "none"

\* C17: from the entry of RegisterControllers on, DEFAULT_RELEASE_PVC and
\* DEFAULT_RELEASE_WORKSPACE_NAME are set to non-empty values, whatever the
\* environment the process was started with.
C17_DefaultsNonEmpty ==
    Reached("RegisterControllers") =>
        \A k \in DefaultKeys : env[k].set /\ env[k].val # ""

C17_Witness ==
    /\ envAtStart[PVCKey] = SetTo("")
    /\ envAtStart[WorkspaceKey] = Unset
    /\ env[PVCKey] = SetTo("release-pvc")
    /\ env[WorkspaceKey] = SetTo("release-workspace")
    /\ pc = "Running"

====
